---- MODULE Spec2Model ----
(***************************************************************************)
(* Minesweeper: the board (src/src/board.rs), the game loop                *)
(* (src/src/main.rs) and the deduction engine (src/src/solver.rs,          *)
(* src/src/solver/region.rs).                                              *)
(*                                                                         *)
(* Locations are pairs <<x, y>> (column, row), 0-based as in the source.   *)
(* A cell category is a record: Mine is [kind |-> "Mine", n |-> 0],        *)
(* Empty(None) is [kind |-> "Empty", n |-> 0] and Empty(Some(k)) is        *)
(* [kind |-> "Empty", n |-> k] (from_cells only ever stores k >= 1).       *)
(*                                                                         *)
(* A usize is modelled by a representative integer r: r >= 0 stands for r, *)
(* r < 0 stands for 2^64 + r, the value a wrapping subtraction leaves.     *)
(* All sizes of the model are far below 2^63, so the representation is     *)
(* exact: equality is equality of representatives and the unsigned order   *)
(* is ULe below.                                                           *)
(***************************************************************************)
EXTENDS Integers, Sequences, FiniteSets, TLC

\* ------------------------------------------------------------ bounds
\* The largest board has MaxCells cells and MaxMines mines; the regions of
\* LinkSpec lie within MaxLocs locations.
MaxCells == 4
MaxMines == 2
MaxLocs == 3
\* RegionsSpec runs calculate_known_cells on up to MaxRegions regions that lie
\* within MaxRegionLocs locations.
MaxRegions == 2
MaxRegionLocs == 2
\* SurroundingsSpec calls surroundings_of on boards up to MaxSide wide and high.
MaxSide == 4
\* ClusterSpec partitions up to MaxItems items whose locations lie within the
\* MaxLocs locations of LinkSpec.
MaxItems == 3
\* UnionSpec joins sets until a rank reaches MaxRank.
MaxRank == 2

VARIABLES
    dims,             \* Board.dims: <<w, h>>
    cells,            \* Board.cells: location -> Cell
    status,           \* the game loop: "playing", "dead", "won", "panicked"
    last_res,         \* the Result of the last action of the game loop
    overflow_checks,  \* the build: TRUE panics on integer overflow, FALSE wraps
    pc,               \* position inside calculate_known_cells ("idle" outside)
    extracted,        \* the Vec<Region> returned by extract_regions
    regions,          \* the residual `regions` of calculate_known_cells
    zero_locs,        \* the accumulator `zero_locs`
    mine_locs,        \* the accumulator `mine_locs`
    links,            \* the VecDeque of LinkedSubRegion
    idle_passes,      \* iterations of the loop since the last resolution
    result,           \* what calculate_known_cells returned
    call,             \* a function called on its own: its argument and what it returned
    current_point,    \* main's cursor
    queued_actions    \* main's VecDeque of actions waiting to be processed

vars == <<dims, cells, status, last_res, overflow_checks, pc, extracted, regions,
          zero_locs, mine_locs, links, idle_passes, result, call,
          current_point, queued_actions>>

boardVars == <<dims, cells>>
solverVars == <<pc, extracted, regions, zero_locs, mine_locs, links, idle_passes, result>>

\* ------------------------------------------------------------ usize
\* a - b on usize, wrapping (the release build); Overflows tells when.
USub(a, b) == a - b
Overflows(a, b) == (a >= 0) /\ (b >= 0) /\ (a < b)
\* a <= b on usize representatives.
ULe(a, b) ==
    IF (a >= 0) = (b >= 0) THEN a <= b ELSE a >= 0

Max(a, b) == IF a >= b THEN a ELSE b
Min(a, b) == IF a <= b THEN a ELSE b

\* ------------------------------------------------------------ board.rs
Mine == [kind |-> "Mine", n |-> 0]
Empty(k) == [kind |-> "Empty", n |-> k]

DefaultCell == [state |-> "Hidden", category |-> Empty(0), scratch |-> FALSE]

w == dims[1]
h == dims[2]

Locs(d) == (0 .. d[1] - 1) \X (0 .. d[2] - 1)

is_loc(p) == (p[1] \in 0 .. w - 1) /\ (p[2] \in 0 .. h - 1)

\* The offsets 0..8 of surroundings_of in iteration order, filtered and mapped.
OffsetOf(i) == <<i % 3, i \div 3>>

\* OffsetKept without the test of the last row.
OffsetKept_no_bottom(d, loc, off) ==
    /\ off # <<1, 1>>
    /\ ~(off[1] = 0 /\ loc[1] = 0)
    /\ ~(off[1] = 2 /\ loc[1] = d[1] - 1)
    /\ ~(off[2] = 0 /\ loc[2] = 0)

OffsetKept(d, loc, off) ==
    /\ off # <<1, 1>>
    /\ ~(off[1] = 0 /\ loc[1] = 0)
    /\ ~(off[1] = 2 /\ loc[1] = d[1] - 1)
    /\ ~(off[2] = 0 /\ loc[2] = 0)
    /\ ~(off[2] = 2 /\ loc[2] = d[2] - 1)

OffsetLoc(loc, off) ==
    << CASE off[1] = 0 -> loc[1] - 1 [] off[1] = 2 -> loc[1] + 1 [] OTHER -> loc[1],
       CASE off[2] = 0 -> loc[2] - 1 [] off[2] = 2 -> loc[2] + 1 [] OTHER -> loc[2] >>

RECURSIVE SurroundingsFrom(_, _, _)
SurroundingsFrom(d, loc, i) ==
    IF i > 8 THEN << >>
    ELSE IF OffsetKept(d, loc, OffsetOf(i))
         THEN <<OffsetLoc(loc, OffsetOf(i))>> \o SurroundingsFrom(d, loc, i + 1)
         ELSE SurroundingsFrom(d, loc, i + 1)

\* surroundings_of as the sequence the iterator yields, and as a set.
surroundings_seq(d, loc) == SurroundingsFrom(d, loc, 0)
surroundings_of(d, loc) == {surroundings_seq(d, loc)[i] : i \in 1 .. Len(surroundings_seq(d, loc))}

\* new_fixed followed by from_cells: mines at `locs`, every other cell counts
\* the mines around it and keeps Empty(None) when there are none.
from_cells(d, locs) ==
    [p \in Locs(d) |->
        IF p \in locs
        THEN [DefaultCell EXCEPT !.category = Mine]
        ELSE [DefaultCell EXCEPT
                 !.category = Empty(Cardinality(surroundings_of(d, p) \cap locs))]]

\* The match of mark with its Visible arm giving Marked.
mark_state_all_toggle(s) ==
    CASE s = "Hidden" -> "Marked"
      [] s = "Marked" -> "Hidden"
      [] OTHER -> "Marked"


\* mark: toggles Hidden and Marked, leaves a Visible cell.
mark_state(s) ==
    CASE s = "Hidden" -> "Marked"
      [] s = "Marked" -> "Hidden"
      [] OTHER -> "Visible"

\* The closure passed to for_each in dig_region, applied to the neighbours
\* `todo` of the popped location in order; st is <<cells, scanning_locs, ok>>,
\* ok turning FALSE at the unimplemented!() of the mine branch.
RECURSIVE ScanNeighbours(_, _)
ScanNeighbours(st, todo) ==
    IF todo = << >> \/ ~st[3] THEN st
    ELSE LET c == st[1]
             p == Head(todo)
             cell == c[p]
             push == cell.category = Empty(0) /\ cell.state # "Marked" /\ ~cell.scratch
             cell1 == IF push THEN [cell EXCEPT !.scratch = TRUE] ELSE cell
             cell2 == IF cell1.state # "Marked"
                      THEN [cell1 EXCEPT !.state = "Visible"] ELSE cell1
         IN IF cell.category.kind = "Empty"
            THEN ScanNeighbours(
                     <<[c EXCEPT ![p] = cell2],
                       IF push THEN Append(st[2], p) ELSE st[2],
                       TRUE>>,
                     Tail(todo))
            ELSE <<c, st[2], FALSE>>

\* The while-let loop of dig_region: pops the last location pushed.
RECURSIVE DigRegionLoop(_, _)
DigRegionLoop(d, st) ==
    IF st[2] = << >> \/ ~st[3] THEN st
    ELSE LET loc == st[2][Len(st[2])]
             rest == SubSeq(st[2], 1, Len(st[2]) - 1)
         IN DigRegionLoop(d, ScanNeighbours(<<st[1], rest, TRUE>>, surroundings_seq(d, loc)))

\* dig_region with nothing in scanning_locs: the start cell alone is shown.
dig_region_start_only(d, c, start) ==
    LET cleared == [p \in DOMAIN c |-> [c[p] EXCEPT !.scratch = FALSE]]
        shown == [cleared EXCEPT ![start].state = "Visible"]
        st == DigRegionLoop(d, <<shown, << >>, TRUE>>)
    IN <<st[1], st[3]>>

\* dig_region: <<cells, ok>>; ok is FALSE when the flood fill met a mine.
dig_region(d, c, start) ==
    LET cleared == [p \in DOMAIN c |-> [c[p] EXCEPT !.scratch = FALSE]]
        shown == [cleared EXCEPT ![start].state = "Visible"]
        st == DigRegionLoop(d, <<shown, <<start>>, TRUE>>)
    IN <<st[1], st[3]>>

\* The for loop of chord over the surroundings: <<cells, ok>>.
RECURSIVE ChordLoop(_, _, _)
ChordLoop(d, c, todo) ==
    IF todo = << >> THEN <<c, TRUE>>
    ELSE LET p == Head(todo)
             next == IF c[p].state # "Marked"
                     THEN IF c[p].category = Empty(0)
                          THEN dig_region(d, c, p)
                          ELSE <<[c EXCEPT ![p].state = "Visible"], TRUE>>
                     ELSE <<c, TRUE>>
         IN IF next[2] THEN ChordLoop(d, next[1], Tail(todo)) ELSE next

\* chord: <<cells, result>>; the result is "Ok", "Dead" or "Panic".
chord(d, c, point, target_num_mines) ==
    LET sur == surroundings_of(d, point)
        marked_mines == Cardinality({p \in sur : c[p].state = "Marked"})
        unmarked_mines == Cardinality({p \in sur : c[p].state # "Marked" /\ c[p].category = Mine})
        done == ChordLoop(d, c, surroundings_seq(d, point))
    IN IF marked_mines # target_num_mines THEN <<c, "Ok">>
       ELSE IF ~done[2] THEN <<done[1], "Panic">>
       ELSE <<done[1], IF unmarked_mines # 0 THEN "Dead" ELSE "Ok">>

\* mark: <<cells, result>>.
mark(d, c, point) ==
    IF point \notin Locs(d) THEN <<c, "OOB">>
    ELSE <<[c EXCEPT ![point].state = mark_state(@)], "Ok">>

\* dig without its early return on a Marked cell.
dig_through_marks(d, c, point) ==
    IF point \notin Locs(d) THEN <<c, "OOB">>
    ELSE IF c[point].category = Mine THEN <<c, "Dead">>
    ELSE IF c[point].category = Empty(0)
         THEN IF c[point].state = "Hidden"
              THEN <<dig_region(d, c, point)[1],
                     IF dig_region(d, c, point)[2] THEN "Ok" ELSE "Panic">>
              ELSE <<c, "Ok">>
         ELSE IF c[point].state = "Hidden"
              THEN <<[c EXCEPT ![point].state = "Visible"], "Ok">>
              ELSE chord(d, c, point, c[point].category.n)

\* dig: <<cells, result>>; the result is "Ok", an Error or "Panic".
dig(d, c, point) ==
    IF point \notin Locs(d) THEN <<c, "OOB">>
    ELSE IF c[point].state = "Marked" THEN <<c, "Marked">>
    ELSE IF c[point].category = Mine THEN <<c, "Dead">>
    ELSE IF c[point].category = Empty(0)
         THEN IF c[point].state = "Hidden"
              THEN <<dig_region(d, c, point)[1],
                     IF dig_region(d, c, point)[2] THEN "Ok" ELSE "Panic">>
              ELSE <<c, "Ok">>
         ELSE IF c[point].state = "Hidden"
              THEN <<[c EXCEPT ![point].state = "Visible"], "Ok">>
              ELSE chord(d, c, point, c[point].category.n)

is_all_but_mines_revealed(c) ==
    \A p \in DOMAIN c : c[p].category = Mine \/ c[p].state = "Visible"

\* ------------------------------------------------------------ solver.rs
Region(m, hid) == [mines |-> m, hidden |-> hid]
NoRegion == Region(0, {})

\* board_locs: (0..h).cartesian_product(0..w), the first component running
\* over the rows' range and the second over the columns' range.
board_locs(d) == [i \in 1 .. d[2] * d[1] |-> <<(i - 1) \div d[1], (i - 1) % d[1]>>]

\* `let (col, row) = loc; self.board.cells[row][col]` is an index panic when
\* row is no row of the board or col no column.
IndexOk(d, loc) == loc \in Locs(d)

\* board_region with the Marked cells taken as the Hidden ones are.
board_region_marks_hidden(d, c) ==
    LET seq == board_locs(d)
        all == {seq[i] : i \in 1 .. Len(seq)}
        hid == {loc \in all \cap DOMAIN c : c[loc].state \in {"Hidden", "Marked"}}
    IN IF \E loc \in all : ~IndexOk(d, loc)
       THEN [ok |-> FALSE, region |-> NoRegion]
       ELSE [ok |-> TRUE,
             region |-> Region(Cardinality({loc \in hid : c[loc].category = Mine}), hid)]

\* board_region: [ok, region]; ok is FALSE when indexing the cells panics.
board_region(d, c) ==
    LET seq == board_locs(d)
        all == {seq[i] : i \in 1 .. Len(seq)}
        hid == {loc \in all \cap DOMAIN c : c[loc].state = "Hidden"}
    IN IF \E loc \in all : ~IndexOk(d, loc)
       THEN [ok |-> FALSE, region |-> NoRegion]
       ELSE [ok |-> TRUE,
             region |-> Region(Cardinality({loc \in hid : c[loc].category = Mine}), hid)]

\* region_around without `num_watched_mines -= 1` for a marked neighbour.
region_around_marks_kept(d, c, loc) ==
    IF ~IndexOk(d, loc) THEN [tag |-> "Panic", region |-> NoRegion]
    ELSE LET sentinel == c[loc]
             sur == surroundings_of(d, loc)
             marked == Cardinality({p \in sur : c[p].state = "Marked"})
             hid == {p \in sur : c[p].state = "Hidden"}
         IN IF sentinel.state # "Visible" THEN [tag |-> "None", region |-> NoRegion]
            ELSE IF sentinel.category = Empty(0) THEN [tag |-> "None", region |-> NoRegion]
            ELSE IF sentinel.category = Mine THEN [tag |-> "Panic", region |-> NoRegion]
            ELSE IF marked > sentinel.category.n THEN [tag |-> "Panic", region |-> NoRegion]
            ELSE [tag |-> "Some", region |-> Region(sentinel.category.n, hid)]

\* region_around: [tag, region] with tag "None", "Some" or "Panic". The
\* assert!(num_watched_mines != 0) fails at the marked neighbour that finds
\* the count already used up, that is when there are more marks than the number.
region_around(d, c, loc) ==
    IF ~IndexOk(d, loc) THEN [tag |-> "Panic", region |-> NoRegion]
    ELSE LET sentinel == c[loc]
             sur == surroundings_of(d, loc)
             marked == Cardinality({p \in sur : c[p].state = "Marked"})
             hid == {p \in sur : c[p].state = "Hidden"}
         IN IF sentinel.state # "Visible" THEN [tag |-> "None", region |-> NoRegion]
            ELSE IF sentinel.category = Empty(0) THEN [tag |-> "None", region |-> NoRegion]
            ELSE IF sentinel.category = Mine THEN [tag |-> "Panic", region |-> NoRegion]
            ELSE IF marked > sentinel.category.n THEN [tag |-> "Panic", region |-> NoRegion]
            ELSE [tag |-> "Some", region |-> Region(sentinel.category.n - marked, hid)]

\* The for loop of extract_regions from position i of board_locs on:
\* [ok, rr], rr being the regions pushed.
RECURSIVE ExtractFrom(_, _, _)
ExtractFrom(d, c, i) ==
    IF i > Len(board_locs(d)) THEN [ok |-> TRUE, rr |-> << >>]
    ELSE LET r == region_around(d, c, board_locs(d)[i])
             rest == ExtractFrom(d, c, i + 1)
         IN IF r.tag = "Panic" THEN [ok |-> FALSE, rr |-> << >>]
            ELSE IF ~rest.ok THEN rest
            ELSE IF r.tag = "Some" THEN [ok |-> TRUE, rr |-> <<r.region>> \o rest.rr]
            ELSE rest

\* extract_regions: the board's region first, then one per numbered cell.
extract_regions(d, c) ==
    LET b == board_region(d, c)
        around == ExtractFrom(d, c, 1)
    IN IF ~b.ok \/ ~around.ok THEN [ok |-> FALSE, rr |-> << >>]
       ELSE [ok |-> TRUE, rr |-> <<b.region>> \o around.rr]

\* The test of strip_zero_regions_from: `if r.mines == 0 { nonzero.push(r) }
\* else { zero.push(r) }`.
PushedToNonzero(r) == r.mines = 0

RECURSIVE UnionHidden(_)
UnionHidden(rr) ==
    IF rr = << >> THEN {} ELSE Head(rr).hidden \cup UnionHidden(Tail(rr))

\* strip_zero_regions_from collecting the locations of its first zero region only.
strip_zero_regions_from_first(rr) ==
    LET zero == SelectSeq(rr, LAMBDA r : ~PushedToNonzero(r))
        nonzero == SelectSeq(rr, LAMBDA r : PushedToNonzero(r))
        zl == IF zero = << >> THEN {} ELSE Head(zero).hidden
    IN [zero_locs |-> zl,
        regions |-> [i \in 1 .. Len(nonzero) |->
                        Region(nonzero[i].mines, nonzero[i].hidden \ zl)]]

\* strip_zero_regions_from: [zero_locs, regions].
strip_zero_regions_from(rr) ==
    LET zero == SelectSeq(rr, LAMBDA r : ~PushedToNonzero(r))
        nonzero == SelectSeq(rr, LAMBDA r : PushedToNonzero(r))
        zl == UnionHidden(zero)
    IN [zero_locs |-> zl,
        regions |-> [i \in 1 .. Len(nonzero) |->
                        Region(nonzero[i].mines, nonzero[i].hidden \ zl)]]

\* split_sets with its two differences exchanged.
split_sets_exchanged(aa, bb) == <<bb \ aa, aa \cap bb, aa \ bb>>

\* split_sets: <<aa - bb, aa /\ bb, bb - aa>>.
split_sets(aa, bb) == <<aa \ bb, aa \cap bb, bb \ aa>>

Link(ms, r0, rs, r1) == [mine_sets |-> ms, r0 |-> r0, rs |-> rs, r1 |-> r1]
NoLink == Link({}, {}, {}, {})

\* rs_max_mines and rs_min_mines of establish_regional_links.
rs_max_mines(rs_num_hidden, p0_mines, p1_mines) ==
    Max(Max(rs_num_hidden, p0_mines), p1_mines)

rs_min_mines(r0_num_hidden, r1_num_hidden, p0_mines, p1_mines) ==
    LET r0_min_contribution == IF p0_mines < r0_num_hidden THEN 0
                               ELSE p0_mines - r0_num_hidden
        r1_min_contribution == IF p1_mines < r1_num_hidden THEN 0
                               ELSE p1_mines - r1_num_hidden
    IN Max(r0_min_contribution, r1_min_contribution)

\* establish_regional_links without its early return on an empty overlap.
establish_regional_links_no_return(parent0, parent1, checks) ==
    LET parts == split_sets(parent0.hidden, parent1.hidden)
        p0_mines == parent0.mines
        p1_mines == parent1.mines
        lo == rs_min_mines(Cardinality(parts[1]), Cardinality(parts[3]), p0_mines, p1_mines)
        hi == rs_max_mines(Cardinality(parts[2]), p0_mines, p1_mines)
        linkages == {<<USub(p0_mines, m), m, USub(p1_mines, m)>> : m \in lo .. hi}
    IN IF checks /\ \E m \in lo .. hi : Overflows(p0_mines, m) \/ Overflows(p1_mines, m)
       THEN [tag |-> "Panic", link |-> NoLink]
       ELSE [tag |-> "Some", link |-> Link(linkages, parts[1], parts[2], parts[3])]

\* establish_regional_links: [tag, link] with tag "None", "Some" or "Panic"
\* (a subtraction overflowing in a build that checks overflow).
establish_regional_links(parent0, parent1, checks) ==
    LET parts == split_sets(parent0.hidden, parent1.hidden)
        r0_num_hidden == Cardinality(parts[1])
        rs_num_hidden == Cardinality(parts[2])
        r1_num_hidden == Cardinality(parts[3])
        p0_mines == parent0.mines
        p1_mines == parent1.mines
        lo == rs_min_mines(r0_num_hidden, r1_num_hidden, p0_mines, p1_mines)
        hi == rs_max_mines(rs_num_hidden, p0_mines, p1_mines)
        linkages == {<<USub(p0_mines, m), m, USub(p1_mines, m)>> : m \in lo .. hi}
    IN IF rs_num_hidden = 0 THEN [tag |-> "None", link |-> NoLink]
       ELSE IF checks /\ \E m \in lo .. hi : Overflows(p0_mines, m) \/ Overflows(p1_mines, m)
       THEN [tag |-> "Panic", link |-> NoLink]
       ELSE [tag |-> "Some", link |-> Link(linkages, parts[1], parts[2], parts[3])]

\* The pairs (p0, p1) of `regions.iter().enumerate().flat_map(|(i, p0)|
\* regions[i..].iter().map(|p1| (p0, p1)))`, from pair (i, j) on, filter_mapped
\* through establish_regional_links and collected: [ok, links].
RECURSIVE LinksFrom(_, _, _, _)
LinksFrom(rr, i, j, checks) ==
    IF i > Len(rr) THEN [ok |-> TRUE, links |-> << >>]
    ELSE IF j > Len(rr) THEN LinksFrom(rr, i + 1, i + 1, checks)
    ELSE LET l == establish_regional_links(rr[i], rr[j], checks)
             rest == LinksFrom(rr, i, j + 1, checks)
         IN IF l.tag = "Panic" THEN [ok |-> FALSE, links |-> << >>]
            ELSE IF ~rest.ok THEN rest
            ELSE IF l.tag = "Some" THEN [ok |-> TRUE, links |-> <<l.link>> \o rest.links]
            ELSE rest

\* remove_from_r never called for the shared zone.
remove_from_r_but_rs(link, locs) ==
    [link EXCEPT !.r0 = @ \ locs, !.r1 = @ \ locs]

\* remove_from_r for the three zones at once: the zones after the removal.
remove_from_r(link, locs) ==
    [link EXCEPT !.r0 = @ \ locs, !.rs = @ \ locs, !.r1 = @ \ locs]

\* LinkedSubRegion::remove_mines.
remove_mines(link, locs) ==
    LET r0_rem == Cardinality(link.r0 \cap locs)
        rs_rem == Cardinality(link.rs \cap locs)
        r1_rem == Cardinality(link.r1 \cap locs)
        kept == {t \in link.mine_sets :
                    ULe(r0_rem, t[1]) /\ ULe(rs_rem, t[2]) /\ ULe(r1_rem, t[3])}
    IN [remove_from_r(link, locs) EXCEPT
           !.mine_sets = {<<USub(t[1], r0_rem), USub(t[2], rs_rem), USub(t[3], r1_rem)>> :
                             t \in kept}]

\* The condition of the assert! that ends remove_empty.
remove_empty_assert(n) == n # 1

\* LinkedSubRegion::remove_empty: [ok, link], ok being the assert!.
remove_empty(link, locs) ==
    LET cut == remove_from_r(link, locs)
        kept == {t \in cut.mine_sets :
                    /\ ULe(t[1], Cardinality(cut.r0))
                    /\ ULe(t[2], Cardinality(cut.rs))
                    /\ ULe(t[3], Cardinality(cut.r1))}
    IN [ok |-> remove_empty_assert(Cardinality(kept)),
        link |-> [cut EXCEPT !.mine_sets = kept]]

\* Region::remove_mine_locs then Region::remove_empty_locs, as the loop
\* applies them: [ok, region]; `self.mines -= num_removed` overflows when
\* more locations go than the region has mines.
remove_locs(region, mine, empty, checks) ==
    LET num_removed == Cardinality(region.hidden \cap mine)
    IN [ok |-> ~(checks /\ Overflows(region.mines, num_removed)),
        region |-> Region(USub(region.mines, num_removed), (region.hidden \ mine) \ empty)]

\* What a link whose only triple is <<m0, ms, m1>> resolves:
\* link_zero_locs and link_mine_locs.
link_zero_locs(link, t) ==
    (IF t[1] = 0 THEN link.r0 ELSE {})
    \cup (IF t[3] = 0 THEN link.r1 ELSE {})
    \cup (IF t[2] = 0 THEN link.rs ELSE {})

link_mine_locs(link, t) ==
    (IF t[1] # 0 /\ t[1] = Cardinality(link.r0) THEN link.r0 ELSE {})
    \cup (IF t[3] # 0 /\ t[3] = Cardinality(link.r1) THEN link.r1 ELSE {})
    \cup (IF t[2] # 0 /\ t[2] = Cardinality(link.rs) THEN link.r1 ELSE {})

\* `for link in links { link.remove_mines(..); link.remove_empty(..) }`.
apply_to_links(ll, mine, empty) ==
    [i \in 1 .. Len(ll) |-> remove_empty(remove_mines(ll[i], mine), empty)]

\* `for region in regions { region.remove_mine_locs(..); region.remove_empty_locs(..) }`.
apply_to_regions(rr, mine, empty, checks) ==
    [i \in 1 .. Len(rr) |-> remove_locs(rr[i], mine, empty, checks)]

\* KnownCells and the Option around it.
Pending == [kind |-> "Pending", empty |-> {}, mines |-> {}]
Panicked == [kind |-> "Panic", empty |-> {}, mines |-> {}]
KnownCells(zl, ml) == [kind |-> "Some", empty |-> zl, mines |-> ml]

\* known_cells with the `mines` field filled from zero_locs.
known_cells_mines_from_zero(zl, ml) ==
    IF zl = {} /\ ml = {}
    THEN [kind |-> "None", empty |-> {}, mines |-> {}]
    ELSE KnownCells(zl, zl)

\* known_cells with `||` for `&&` in its test.
known_cells_either_empty(zl, ml) ==
    IF zl = {} \/ ml = {}
    THEN [kind |-> "None", empty |-> {}, mines |-> {}]
    ELSE KnownCells(zl, ml)

\* The tail of calculate_known_cells.
known_cells(zl, ml) ==
    IF zl = {} /\ ml = {}
    THEN [kind |-> "None", empty |-> {}, mines |-> {}]
    ELSE KnownCells(zl, ml)

\* The `while let Some(link) = links.pop_front()` loop as a function of its
\* queue, regions and accumulators: what calculate_known_cells returns,
\* Panicked when a step panics, Pending when a whole pass of the queue has
\* pushed every link back (the queue then repeats and the loop never ends).
RECURSIVE loop_from(_, _, _, _, _, _)
loop_from(ll, rr, zl, ml, idle, checks) ==
    IF ll = << >> THEN known_cells(zl, ml)
    ELSE IF idle >= Len(ll) THEN Pending
    ELSE LET link == Head(ll)
             t == CHOOSE x \in link.mine_sets : TRUE
             lz == link_zero_locs(link, t)
             lm == link_mine_locs(link, t)
             nl == apply_to_links(Tail(ll), lm, lz)
             nr == apply_to_regions(rr, lm, lz, checks)
         IN IF Cardinality(link.mine_sets) = 1
            THEN IF /\ \A i \in 1 .. Len(nl) : nl[i].ok
                    /\ \A i \in 1 .. Len(nr) : nr[i].ok
                 THEN loop_from([i \in 1 .. Len(nl) |-> nl[i].link],
                                [i \in 1 .. Len(nr) |-> nr[i].region],
                                zl \cup lz, ml \cup lm, 0, checks)
                 ELSE Panicked
            ELSE loop_from(Append(Tail(ll), link), rr, zl, ml, idle + 1, checks)

\* calculate_known_cells from the Vec<Region> of extract_regions on.
calculate_known_cells(rr, checks) ==
    LET stripped == strip_zero_regions_from(rr)
        l == LinksFrom(stripped.regions, 1, 1, checks)
    IN IF l.ok
       THEN loop_from(l.links, stripped.regions, stripped.zero_locs, {}, 0, checks)
       ELSE Panicked

\* ------------------------------------------------------------ main.rs
\* What the game loop does with the Result of an action: an Ok action is
\* followed by the completion check (main calls it is_completed; board.rs
\* defines it as is_all_but_mines_revealed), OOB and Marked `continue`, Dead
\* breaks.
after_result(res, c) ==
    CASE res = "Ok" -> IF is_all_but_mines_revealed(c) THEN "won" ELSE "playing"
      [] res = "Dead" -> "dead"
      [] res = "Panic" -> "panicked"
      [] OTHER -> "playing"

Mines(c) == {p \in DOMAIN c : c[p].category = Mine}

NoCall == [arg |-> << >>, ret |-> << >>]

SolverIdle ==
    /\ pc = "idle"
    /\ extracted = << >>
    /\ regions = << >>
    /\ zero_locs = {}
    /\ mine_locs = {}
    /\ links = << >>
    /\ idle_passes = 0
    /\ result = Pending

\* Board::new_fixed on any dimensions and any mine locations within the bounds.
Init ==
    /\ dims \in {d \in (1 .. MaxCells) \X (1 .. MaxCells) : d[1] * d[2] <= MaxCells}
    /\ \E locs \in SUBSET Locs(dims) :
          /\ Cardinality(locs) <= MaxMines
          /\ cells = from_cells(dims, locs)
    /\ status = "playing"
    /\ current_point = <<0, 0>>
    /\ queued_actions = << >>
    /\ last_res = "Ok"
    /\ overflow_checks \in BOOLEAN
    /\ SolverIdle
    /\ call = NoCall

\* Action::Mark with the cursor taken to a point of the board.
DoMark(p) ==
    /\ status = "playing" /\ pc = "idle"
    /\ cells' = [cells EXCEPT ![p].state = mark_state(@)]
    /\ last_res' = "Ok"
    /\ status' = after_result("Ok", cells')
    /\ UNCHANGED <<dims, overflow_checks, solverVars>>
    /\ current_point' = p
    /\ UNCHANGED <<call, queued_actions>>

\* Action::Dig with the cursor taken to a point of the board.
DoDig(p) ==
    /\ status = "playing" /\ pc = "idle"
    /\ cells' = dig(dims, cells, p)[1]
    /\ last_res' = dig(dims, cells, p)[2]
    /\ status' = after_result(last_res', cells')
    /\ UNCHANGED <<dims, overflow_checks, solverVars>>
    /\ current_point' = p
    /\ UNCHANGED <<call, queued_actions>>

\* A panic anywhere inside calculate_known_cells aborts the process.
Abort ==
    /\ pc' = "panic"
    /\ result' = Panicked
    /\ status' = "panicked"
    /\ last_res' = "Panic"

\* Action::LaunchProbe: launch_probe calls calculate_known_cells, which
\* starts with extract_regions.
LaunchProbe ==
    /\ status = "playing" /\ pc = "idle"
    /\ LET e == extract_regions(dims, cells)
       IN IF e.ok
          THEN /\ extracted' = e.rr
               /\ pc' = "strip"
               /\ UNCHANGED <<status, last_res, result>>
          ELSE /\ Abort
               /\ UNCHANGED extracted
    /\ UNCHANGED <<boardVars, overflow_checks, regions, zero_locs, mine_locs, links, idle_passes>>
    /\ UNCHANGED <<call, current_point, queued_actions>>

\* `let StrippedRegions { mut zero_locs, regions } = self.strip_zero_regions_from(regions);
\*  let mine_locs = IndexSet::new();`
Strip ==
    /\ pc = "strip"
    /\ zero_locs' = strip_zero_regions_from(extracted).zero_locs
    /\ regions' = strip_zero_regions_from(extracted).regions
    /\ mine_locs' = {}
    /\ pc' = "link"
    /\ UNCHANGED <<boardVars, status, last_res, overflow_checks, extracted, links,
                   idle_passes, result>>
    /\ UNCHANGED <<call, current_point, queued_actions>>

\* `let mut links = ... .collect::<VecDeque<_>>();`
BuildLinks ==
    /\ pc = "link"
    /\ LET l == LinksFrom(regions, 1, 1, overflow_checks)
       IN IF l.ok
          THEN /\ links' = l.links
               /\ pc' = "loop"
               /\ UNCHANGED <<status, last_res, result>>
          ELSE /\ Abort
               /\ UNCHANGED links
    /\ idle_passes' = 0
    /\ UNCHANGED <<boardVars, overflow_checks, extracted, regions, zero_locs, mine_locs>>
    /\ UNCHANGED <<call, current_point, queued_actions>>

\* One iteration of `while let Some(link) = links.pop_front()`.
LoopStep ==
    /\ pc = "loop"
    /\ links # << >>
    /\ LET link == Head(links)
           t == CHOOSE x \in link.mine_sets : TRUE
           zl == link_zero_locs(link, t)
           ml == link_mine_locs(link, t)
           ll == apply_to_links(Tail(links), ml, zl)
           rr == apply_to_regions(regions, ml, zl, overflow_checks)
       IN IF Cardinality(link.mine_sets) = 1
          THEN IF /\ \A i \in 1 .. Len(ll) : ll[i].ok
                  /\ \A i \in 1 .. Len(rr) : rr[i].ok
               THEN /\ links' = [i \in 1 .. Len(ll) |-> ll[i].link]
                    /\ regions' = [i \in 1 .. Len(rr) |-> rr[i].region]
                    /\ mine_locs' = mine_locs \cup ml
                    /\ zero_locs' = zero_locs \cup zl
                    /\ idle_passes' = 0
                    /\ UNCHANGED <<pc, status, last_res, result>>
               ELSE /\ Abort
                    /\ UNCHANGED <<links, regions, mine_locs, zero_locs, idle_passes>>
          ELSE /\ links' = Append(Tail(links), link)
               /\ idle_passes' = Min(idle_passes + 1, Len(links) + 1)
               /\ UNCHANGED <<pc, status, last_res, result, regions, mine_locs, zero_locs>>
    /\ UNCHANGED <<boardVars, overflow_checks, extracted>>
    /\ UNCHANGED <<call, current_point, queued_actions>>

\* The queue is empty: the loop ends and the result is built.
Return ==
    /\ pc = "loop"
    /\ links = << >>
    /\ result' = known_cells(zero_locs, mine_locs)
    /\ pc' = "done"
    /\ UNCHANGED <<boardVars, status, last_res, overflow_checks, extracted, regions,
                   zero_locs, mine_locs, links, idle_passes>>
    /\ UNCHANGED <<call, current_point, queued_actions>>

\* launch_probe: Some known cells is Err(Dead), None is Ok; the regions,
\* links and accumulators of the call are dropped.
\* probe_result with the two arms of its `if` exchanged.
probe_result_swapped(r) == IF r.kind = "Some" THEN "Ok" ELSE "Dead"

probe_result(r) == IF r.kind = "Some" THEN "Dead" ELSE "Ok"

ProbeDone ==
    /\ pc = "done"
    /\ last_res' = probe_result(result)
    /\ status' = after_result(last_res', cells)
    /\ pc' = "idle"
    /\ extracted' = << >>
    /\ regions' = << >>
    /\ zero_locs' = {}
    /\ mine_locs' = {}
    /\ links' = << >>
    /\ idle_passes' = 0
    /\ result' = Pending
    /\ UNCHANGED <<boardVars, overflow_checks>>
    /\ UNCHANGED <<call, current_point, queued_actions>>

Next ==
    \/ \E p \in Locs(dims) : DoMark(p)
    \/ \E p \in Locs(dims) : DoDig(p)
    \/ LaunchProbe
    \/ Strip
    \/ BuildLinks
    \/ LoopStep
    \/ Return
    \/ ProbeDone

Spec == Init /\ [][Next]_vars

\* ------------------------------------------------------------ the cursor
\* The points of the board and three points off it.
ApiPoints(d) == Locs(d) \cup {<<d[1], 0>>, <<0, d[2]>>, <<d[1], d[2]>>}

\* The arm Action::Move of main: the cursor after a move.
Directions == {"Up", "Left", "Down", "Right"}

move_point(d, point, dir) ==
    CASE dir = "Up" -> IF point[2] # 0 THEN <<point[1], point[2] - 1>> ELSE point
      [] dir = "Left" -> IF point[1] # 0 THEN <<point[1] - 1, point[2]>> ELSE point
      [] dir = "Down" -> IF <<point[1], point[2] + 1>> \in Locs(d)
                         THEN <<point[1], point[2] + 1>> ELSE point
      [] OTHER -> IF <<point[1] + 1, point[2]>> \in Locs(d)
                  THEN <<point[1] + 1, point[2]>> ELSE point

\* The arm Action::JumpTo of main with the `if` taken the other way.
jump_to_off_board(d, point, p) == IF p \in Locs(d) THEN point ELSE p

\* The arm Action::JumpTo of main.
jump_to(d, point, p) == IF p \in Locs(d) THEN p ELSE point

\* Action::Mark or Action::Dig of an Input whose point is `point`:
\* <<cells, result>>.
act_at(d, c, action, point) ==
    IF action = "Mark" THEN mark(d, c, point) ELSE dig(d, c, point)

\* One iteration of main's loop on a key read with an empty queue.
KeyMove(dir) ==
    /\ status = "playing" /\ pc = "idle" /\ queued_actions = << >>
    /\ current_point' = move_point(dims, current_point, dir)
    /\ last_res' = "Ok"
    /\ status' = after_result("Ok", cells)
    /\ UNCHANGED <<boardVars, overflow_checks, solverVars, call, queued_actions>>

KeyAct(action) ==
    /\ status = "playing" /\ pc = "idle" /\ queued_actions = << >>
    /\ cells' = act_at(dims, cells, action, current_point)[1]
    /\ last_res' = act_at(dims, cells, action, current_point)[2]
    /\ status' = after_result(last_res', cells')
    /\ UNCHANGED <<dims, overflow_checks, solverVars, call, current_point, queued_actions>>

\* A press of a mouse button and its release at the same position, coords
\* being the position made 0-indexed: read_input returns
\* (JumpTo(coords), Some(action)), kept in call.ret; the loop queues the
\* action and processes the JumpTo.
Click(action, coords) ==
    /\ status = "playing" /\ pc = "idle" /\ queued_actions = << >>
    /\ call' = [arg |-> << >>, ret |-> <<coords, action>>]
    /\ queued_actions' = <<action>>
    /\ current_point' = jump_to(dims, current_point, coords)
    /\ last_res' = "Ok"
    /\ status' = after_result("Ok", cells)
    /\ UNCHANGED <<boardVars, overflow_checks, solverVars>>

\* One iteration of the loop on a queue that is not empty: the action at
\* its front is processed at the cursor, no input is read.
RunQueued ==
    /\ status = "playing" /\ pc = "idle" /\ queued_actions # << >>
    /\ cells' = act_at(dims, cells, Head(queued_actions), current_point)[1]
    /\ last_res' = act_at(dims, cells, Head(queued_actions), current_point)[2]
    /\ status' = after_result(last_res', cells')
    /\ queued_actions' = Tail(queued_actions)
    /\ call' = NoCall
    /\ UNCHANGED <<dims, overflow_checks, solverVars, current_point>>

GameNext ==
    \/ \E dir \in Directions : KeyMove(dir)
    \/ \E action \in {"Mark", "Dig"} : KeyAct(action)
    \/ \E action \in {"Mark", "Dig"}, coords \in ApiPoints(dims) : Click(action, coords)
    \/ RunQueued

GameSpec == Init /\ [][GameNext]_vars

\* ------------------------------------------------------------ mark and dig alone
\* Board::mark and Board::dig called at any point, on or off the board, of a
\* board that calls of mark and dig have reached: call.arg holds the method
\* and the point of the last call looked at, call.ret its Result.
BoardMark(p) ==
    /\ pc = "idle"
    /\ cells' = mark(dims, cells, p)[1]
    /\ UNCHANGED <<dims, status, last_res, overflow_checks, solverVars, call,
                   current_point, queued_actions>>

\* A dig that panics is left to CallDig: nothing is called after it.
BoardDig(p) ==
    /\ pc = "idle"
    /\ dig(dims, cells, p)[2] # "Panic"
    /\ cells' = dig(dims, cells, p)[1]
    /\ UNCHANGED <<dims, status, last_res, overflow_checks, solverVars, call,
                   current_point, queued_actions>>

CallMark(point) ==
    /\ pc = "idle"
    /\ cells' = mark(dims, cells, point)[1]
    /\ call' = [arg |-> <<"mark", point>>, ret |-> <<mark(dims, cells, point)[2]>>]
    /\ pc' = "returned"
    /\ UNCHANGED <<dims, status, last_res, overflow_checks, extracted, regions,
                   zero_locs, mine_locs, links, idle_passes, result>>
    /\ UNCHANGED <<current_point, queued_actions>>

CallDig(point) ==
    /\ pc = "idle"
    /\ cells' = dig(dims, cells, point)[1]
    /\ call' = [arg |-> <<"dig", point>>, ret |-> <<dig(dims, cells, point)[2]>>]
    /\ pc' = "returned"
    /\ UNCHANGED <<dims, status, last_res, overflow_checks, extracted, regions,
                   zero_locs, mine_locs, links, idle_passes, result>>
    /\ UNCHANGED <<current_point, queued_actions>>

BoardApiNext ==
    \/ \E p \in Locs(dims) : BoardMark(p)
    \/ \E p \in Locs(dims) : BoardDig(p)
    \/ \E point \in ApiPoints(dims) : CallMark(point)
    \/ \E point \in ApiPoints(dims) : CallDig(point)

BoardApiSpec == Init /\ [][BoardApiNext]_vars

\* ------------------------------------------------------------ links alone
\* establish_regional_links, remove_mines and remove_empty applied to any two
\* regions over MaxLocs locations: regions[1] and regions[2] are the parents,
\* links holds the link made of them.
PureLocs == {<<i, 0>> : i \in 0 .. MaxLocs - 1}

PureRegions ==
    {Region(m, hid) : <<m, hid>> \in
        {x \in (0 .. MaxLocs) \X SUBSET PureLocs : x[1] <= Cardinality(x[2])}}

LinkInit ==
    /\ dims = <<1, 1>>
    /\ cells = from_cells(<<1, 1>>, {})
    /\ status = "playing"
    /\ current_point = <<0, 0>>
    /\ queued_actions = << >>
    /\ last_res = "Ok"
    /\ overflow_checks \in BOOLEAN
    /\ pc = "pair"
    /\ extracted = << >>
    /\ \E a \in PureRegions, b \in PureRegions : regions = <<a, b>>
    /\ zero_locs = {}
    /\ mine_locs = {}
    /\ links = << >>
    /\ idle_passes = 0
    /\ result = Pending
    /\ call = NoCall

PureLink ==
    /\ pc = "pair"
    /\ LET l == establish_regional_links(regions[1], regions[2], overflow_checks)
       IN /\ pc' = CASE l.tag = "Some" -> "linked"
                     [] l.tag = "None" -> "unlinked"
                     [] OTHER -> "panic"
          /\ links' = IF l.tag = "Some" THEN <<l.link>> ELSE << >>
          /\ result' = IF l.tag = "Panic" THEN Panicked ELSE result
    /\ UNCHANGED <<boardVars, status, last_res, overflow_checks, extracted, regions,
                   zero_locs, mine_locs, idle_passes>>
    /\ UNCHANGED <<call, current_point, queued_actions>>

PureRemoveMines(locs) ==
    /\ pc = "linked"
    /\ links' = <<remove_mines(links[1], locs)>>
    /\ mine_locs' = locs
    /\ pc' = "mines_removed"
    /\ UNCHANGED <<boardVars, status, last_res, overflow_checks, extracted, regions,
                   zero_locs, idle_passes, result>>
    /\ UNCHANGED <<call, current_point, queued_actions>>

PureRemoveEmpty(locs) ==
    /\ pc \in {"linked", "mines_removed"}
    /\ links' = <<remove_empty(links[1], locs).link>>
    /\ zero_locs' = locs
    /\ result' = IF remove_empty(links[1], locs).ok THEN result ELSE Panicked
    /\ pc' = "empty_removed"
    /\ UNCHANGED <<boardVars, status, last_res, overflow_checks, extracted, regions,
                   mine_locs, idle_passes>>
    /\ UNCHANGED <<call, current_point, queued_actions>>

\* The branch `if link.mine_sets.len() == 1` of the loop on the link: what it
\* resolves is added to the accumulators.
PureResolve ==
    /\ pc \in {"linked", "mines_removed", "empty_removed"}
    /\ result.kind # "Panic"
    /\ Cardinality(links[1].mine_sets) = 1
    /\ LET t == CHOOSE x \in links[1].mine_sets : TRUE
       IN /\ zero_locs' = zero_locs \cup link_zero_locs(links[1], t)
          /\ mine_locs' = mine_locs \cup link_mine_locs(links[1], t)
    /\ pc' = "resolved"
    /\ UNCHANGED <<boardVars, status, last_res, overflow_checks, extracted, regions,
                   links, idle_passes, result>>
    /\ UNCHANGED <<call, current_point, queued_actions>>

\* The two `for` loops of the branch applied to the link and to its parents:
\* remove_mines and remove_empty on the link, remove_mine_locs and
\* remove_empty_locs on the regions, for any locations resolved elsewhere.
PureApply(mine, empty) ==
    /\ pc = "linked"
    /\ LET l == remove_empty(remove_mines(links[1], mine), empty)
           rr == apply_to_regions(regions, mine, empty, overflow_checks)
       IN /\ links' = <<l.link>>
          /\ regions' = [i \in 1 .. Len(rr) |-> rr[i].region]
          /\ result' = IF l.ok /\ \A i \in 1 .. Len(rr) : rr[i].ok THEN result ELSE Panicked
    /\ mine_locs' = mine
    /\ zero_locs' = empty
    /\ pc' = "applied"
    /\ UNCHANGED <<boardVars, status, last_res, overflow_checks, extracted, idle_passes>>
    /\ UNCHANGED <<call, current_point, queued_actions>>

LinkNext ==
    \/ PureLink
    \/ \E locs \in SUBSET PureLocs : PureRemoveMines(locs)
    \/ \E locs \in SUBSET PureLocs : PureRemoveEmpty(locs)
    \/ PureResolve
    \/ \E mine \in SUBSET PureLocs, empty \in SUBSET PureLocs : PureApply(mine, empty)

LinkSpec == LinkInit /\ [][LinkNext]_vars

\* ------------------------------------------------------------ regions alone
\* calculate_known_cells from the Vec<Region> on: strip_zero_regions_from,
\* the links and the loop applied to any vector of regions.
RegionLocs == {<<i, 0>> : i \in 0 .. MaxRegionLocs - 1}

GivenRegions ==
    {Region(m, hid) : <<m, hid>> \in
        {x \in (0 .. MaxRegionLocs) \X SUBSET RegionLocs : x[1] <= Cardinality(x[2])}}

RegionsInit ==
    /\ dims = <<1, 1>>
    /\ cells = from_cells(<<1, 1>>, {})
    /\ status = "playing"
    /\ current_point = <<0, 0>>
    /\ queued_actions = << >>
    /\ last_res = "Ok"
    /\ overflow_checks \in BOOLEAN
    /\ pc = "strip"
    /\ \E n \in 1 .. MaxRegions : extracted \in [1 .. n -> GivenRegions]
    /\ regions = << >>
    /\ zero_locs = {}
    /\ mine_locs = {}
    /\ links = << >>
    /\ idle_passes = 0
    /\ result = Pending
    /\ call = NoCall

RegionsNext ==
    \/ Strip
    \/ BuildLinks
    \/ LoopStep
    \/ Return

RegionsSpec == RegionsInit /\ [][RegionsNext]_vars

\* calculate_known_cells on the regions of a board of the game or on any
\* vector of regions.
BoardOrRegionsInit == Init \/ RegionsInit

BoardOrRegionsSpec == BoardOrRegionsInit /\ [][Next]_vars

\* ------------------------------------------------------------ surroundings_of alone
\* surroundings_of called at any location of any board, its iterator
\* collected into call.ret.
SurroundingsInit ==
    /\ dims \in (1 .. MaxSide) \X (1 .. MaxSide)
    /\ cells = from_cells(dims, {})
    /\ status = "playing"
    /\ current_point = <<0, 0>>
    /\ queued_actions = << >>
    /\ last_res = "Ok"
    /\ overflow_checks = TRUE
    /\ pc = "call"
    /\ extracted = << >>
    /\ regions = << >>
    /\ zero_locs = {}
    /\ mine_locs = {}
    /\ links = << >>
    /\ idle_passes = 0
    /\ result = Pending
    /\ \E loc \in Locs(dims) : call = [arg |-> loc, ret |-> << >>]

CallSurroundings ==
    /\ pc = "call"
    /\ call' = [call EXCEPT !.ret = surroundings_seq(dims, call.arg)]
    /\ pc' = "returned"
    /\ UNCHANGED <<boardVars, status, last_res, overflow_checks, extracted, regions,
                   zero_locs, mine_locs, links, idle_passes, result>>
    /\ UNCHANGED <<current_point, queued_actions>>

SurroundingsNext == CallSurroundings

SurroundingsSpec == SurroundingsInit /\ [][SurroundingsNext]_vars

\* ------------------------------------------------------------ solver/algo/cc.rs
\* Ids are 0-based as in the source; a DisjointSet is a function from ids to
\* Cells, the elements are the all_locs of the ContextualLinkedSubRegions.
Cell(parent, rank) == [parent |-> parent, rank |-> rank]

\* DisjointSet::new.
DisjointSet(len) == [a \in 0 .. len - 1 |-> Cell(a, 0)]

\* The `while ptr.parent != root` loop of DisjointSet::root.
RECURSIVE root_walk(_, _)
root_walk(ds, r) == IF ds[r].parent # r THEN root_walk(ds, ds[r].parent) ELSE r

\* DisjointSet::root: [root, ds]; the compression loop writes the parent of
\* `id` once for each element of the history.
root(ds, id) ==
    LET r == root_walk(ds, id)
    IN [root |-> r, ds |-> [ds EXCEPT ![id].parent = r]]

\* DisjointSet::join with the rank raised and no parent assigned.
join_rank_only(ds, id_0, id_1) ==
    LET a == root(ds, id_0)
        b == root(a.ds, id_1)
        root_0 == a.root
        d == b.ds
    IN [d EXCEPT ![root_0].rank = @ + 1]

\* DisjointSet::join: both comparisons are of root_0.rank with itself.
join(ds, id_0, id_1) ==
    LET a == root(ds, id_0)
        b == root(a.ds, id_1)
        root_0 == a.root
        root_1 == b.root
        d == b.ds
    IN IF d[root_0].rank < d[root_0].rank
       THEN [d EXCEPT ![root_1].parent = d[root_0].parent]
       ELSE IF d[root_0].rank > d[root_0].rank
            THEN [d EXCEPT ![root_0].parent = d[root_1].parent]
            ELSE LET e == [d EXCEPT ![root_0].rank = @ + 1]
                 IN [e EXCEPT ![root_1].parent = e[root_0].parent]

\* The closure cc hands to DisjointSet::run.
is_joint(a, b) == Cardinality(a \cap b) = 0

\* The two `for` loops of DisjointSet::run from the pair (i0, i1) on: the
\* test is made on els[0] and els[1] (1 and 2 here) for every pair.
RECURSIVE run_pairs(_, _, _, _)
run_pairs(ds, els, i0, i1) ==
    IF i0 >= Len(els) - 1 THEN ds
    ELSE IF i1 >= Len(els) THEN run_pairs(ds, els, i0 + 1, i0 + 2)
    ELSE run_pairs(IF is_joint(els[1], els[2]) THEN join(ds, i0, i1) ELSE ds,
                   els, i0, i1 + 1)

\* DisjointSet::run: [ok, ds]; `unions.len() - 1` overflows on no element,
\* and wrapped it bounds a loop whose inner range is always empty.
run(els, checks) ==
    [ok |-> ~(checks /\ Overflows(Len(els), 1)),
     ds |-> IF Len(els) = 0 THEN DisjointSet(0)
            ELSE run_pairs(DisjointSet(Len(els)), els, 0, 1)]

\* The `for id in (0..self.len()).rev()` loop of split_on_groups from id
\* down: mapping is the IndexMap as a sequence of [root, set] in insertion
\* order, an element being named by its index in `stuff`.
RECURSIVE split_from(_, _, _)
split_from(ds, id, mapping) ==
    IF id < 0 THEN [k \in 1 .. Len(mapping) |-> mapping[k].set]
    ELSE LET r == root(ds, id)
             at == {k \in 1 .. Len(mapping) : mapping[k].root = r.root}
         IN IF at = {}
            THEN split_from(r.ds, id - 1,
                            Append(mapping, [root |-> r.root, set |-> <<id>>]))
            ELSE LET k == CHOOSE x \in at : TRUE
                 IN split_from(r.ds, id - 1,
                               [mapping EXCEPT ![k].set = Append(@, id)])

\* DisjointSet::split_on_groups on `len` elements.
split_on_groups(ds, len) == split_from(ds, len - 1, << >>)

\* cc: [ok, groups].
cc(els, checks) ==
    LET unions == run(els, checks)
    IN [ok |-> unions.ok, groups |-> split_on_groups(unions.ds, Len(els))]

\* cc called on any queue of up to MaxItems elements: call.arg holds the
\* all_locs of each element, call.ret the groups returned.
ClusterItems == (SUBSET PureLocs) \ {{}}

ClusterInit ==
    /\ dims = <<1, 1>>
    /\ cells = from_cells(<<1, 1>>, {})
    /\ status = "playing"
    /\ current_point = <<0, 0>>
    /\ queued_actions = << >>
    /\ last_res = "Ok"
    /\ overflow_checks \in BOOLEAN
    /\ pc = "cluster"
    /\ extracted = << >>
    /\ regions = << >>
    /\ zero_locs = {}
    /\ mine_locs = {}
    /\ links = << >>
    /\ idle_passes = 0
    /\ result = Pending
    /\ \E n \in 0 .. MaxItems : \E els \in [1 .. n -> ClusterItems] :
          call = [arg |-> els, ret |-> << >>]

CallCc ==
    /\ pc = "cluster"
    /\ LET c == cc(call.arg, overflow_checks)
       IN IF c.ok
          THEN /\ call' = [call EXCEPT !.ret = c.groups]
               /\ pc' = "clustered"
               /\ UNCHANGED result
          ELSE /\ result' = Panicked
               /\ pc' = "panic"
               /\ UNCHANGED call
    /\ UNCHANGED <<boardVars, status, last_res, overflow_checks, extracted, regions,
                   zero_locs, mine_locs, links, idle_passes>>
    /\ UNCHANGED <<current_point, queued_actions>>

ClusterNext == CallCc

ClusterSpec == ClusterInit /\ [][ClusterNext]_vars

\* root and join called in any order on a DisjointSet of up to MaxItems
\* elements: call.arg holds the DisjointSet, call.ret what the last call
\* returned.
UnionInit ==
    /\ dims = <<1, 1>>
    /\ cells = from_cells(<<1, 1>>, {})
    /\ status = "playing"
    /\ current_point = <<0, 0>>
    /\ queued_actions = << >>
    /\ last_res = "Ok"
    /\ overflow_checks = TRUE
    /\ pc = "unions"
    /\ extracted = << >>
    /\ regions = << >>
    /\ zero_locs = {}
    /\ mine_locs = {}
    /\ links = << >>
    /\ idle_passes = 0
    /\ result = Pending
    /\ \E len \in 1 .. MaxItems : call = [arg |-> DisjointSet(len), ret |-> << >>]

CallRoot(id) ==
    /\ pc = "unions"
    /\ call' = [arg |-> root(call.arg, id).ds, ret |-> <<root(call.arg, id).root>>]
    /\ UNCHANGED <<boardVars, status, last_res, overflow_checks, solverVars,
                   current_point, queued_actions>>

CallJoin(id_0, id_1) ==
    /\ pc = "unions"
    /\ \A id \in DOMAIN call.arg : call.arg[id].rank < MaxRank
    /\ call' = [arg |-> join(call.arg, id_0, id_1),
                ret |-> <<root(join(call.arg, id_0, id_1), id_0).root>>]
    /\ UNCHANGED <<boardVars, status, last_res, overflow_checks, solverVars,
                   current_point, queued_actions>>

UnionNext ==
    \/ \E id \in DOMAIN call.arg : CallRoot(id)
    \/ \E id_0 \in DOMAIN call.arg, id_1 \in DOMAIN call.arg : CallJoin(id_0, id_1)

UnionSpec == UnionInit /\ [][UnionNext]_vars

\* ------------------------------------------------------------ properties
MarksAreMines == \A p \in DOMAIN cells : cells[p].state = "Marked" => cells[p].category = Mine
TotalMines == Cardinality(Mines(cells))
MarkedCount == Cardinality({p \in DOMAIN cells : cells[p].state = "Marked"})
Stripped == pc \in {"link", "loop", "done"}
StripFound == strip_zero_regions_from(extracted).zero_locs

\* C1: on a board whose marked cells are all mines, every location returned
\* in `mines` is a mine and every location returned in `empty` is not.
C1_Sound ==
    (pc = "done" /\ MarksAreMines) =>
        /\ result.mines \subseteq Mines(cells)
        /\ result.empty \cap Mines(cells) = {}

\* C2: the accumulators zero_locs and mine_locs are disjoint at every step,
\* and so are the `empty` and `mines` sets of every result.
C2_Disjoint ==
    /\ zero_locs \cap mine_locs = {}
    /\ result.empty \cap result.mines = {}

C2_Witness ==
    /\ pc = "done"
    /\ result.kind = "Some"
    /\ Cardinality(result.empty) >= 2
    /\ Len(extracted) >= 2

\* C3: once stripping is over, the hidden locations of every extracted region
\* that requires 0 mines are in zero_locs, the `empty` set of the result.
C3_ZeroRegionSafe ==
    Stripped =>
        \A i \in 1 .. Len(extracted) :
            extracted[i].mines = 0 => extracted[i].hidden \subseteq zero_locs

\* C4: the hidden locations of every extracted region that requires as many
\* mines as it has hidden locations are in the `mines` set of the result.
C4_FullRegionMines ==
    pc = "done" =>
        \A i \in 1 .. Len(extracted) :
            extracted[i].mines = Cardinality(extracted[i].hidden)
                => extracted[i].hidden \subseteq result.mines

\* C5: the loop stops once a full cycle through the queue has produced no
\* resolution: it never takes a link from the queue after as many iterations
\* without a resolution as the queue has links.
C5_StopsAfterIdleCycle == idle_passes <= Len(links)

\* C6: a revealed numbered cell with more marked neighbours than its number
\* makes calculate_known_cells return the contradiction error as a value
\* (stated for square boards: on any other board_region panics on an index
\* before a numbered cell is looked at).
FlagOvercount ==
    \E p \in DOMAIN cells :
        /\ cells[p].state = "Visible"
        /\ cells[p].category.kind = "Empty"
        /\ cells[p].category.n > 0
        /\ Cardinality({q \in surroundings_of(dims, p) : cells[q].state = "Marked"})
               > cells[p].category.n

C6_OvercountIsErr ==
    (pc \in {"done", "panic"} /\ w = h /\ FlagOvercount) => result.kind = "Err"

\* C7: a link left with an empty feasible set by remove_empty is reported as
\* the contradiction error, and a link left with exactly one triple is not an
\* error (stated for the build that checks overflow, where no triple holds a
\* wrapped count).
C7_EmptyFeasibleIsErr ==
    (pc = "empty_removed" /\ overflow_checks) =>
        /\ links[1].mine_sets = {} => result.kind = "Err"
        /\ Cardinality(links[1].mine_sets) = 1 => result.kind # "Panic"

\* C9: at every step of the propagation, the mines found plus the mines the
\* global region still requires (none once it has been stripped as resolved)
\* are the board's mines minus its marked cells.
GlobalRequired ==
    IF PushedToNonzero(extracted[1]) THEN regions[1].mines ELSE 0

C9_Conservation ==
    pc \in {"loop", "done"} =>
        Cardinality(mine_locs) + GlobalRequired = TotalMines - MarkedCount

\* C10 as stated: the result is None when the propagation resolved nothing
\* beyond what stripping found, and otherwise Some of everything accumulated.
C10_NoneUnlessPropagated ==
    pc = "done" =>
        IF zero_locs = StripFound /\ mine_locs = {}
        THEN result.kind = "None"
        ELSE result = KnownCells(zero_locs, mine_locs)

\* C10 as amended: the result is None when neither stripping nor propagation
\* resolved any location, and otherwise Some holding every location
\* accumulated by stripping and by propagation.
C10_NoneIffNothingFound ==
    pc = "done" =>
        IF StripFound = {} /\ zero_locs = {} /\ mine_locs = {}
        THEN result.kind = "None"
        ELSE /\ result.kind = "Some"
             /\ StripFound \subseteq result.empty
             /\ result.empty = zero_locs
             /\ result.mines = mine_locs

C10_Witness ==
    /\ pc = "done"
    /\ result.kind = "Some"
    /\ StripFound # {}
    /\ zero_locs = StripFound
    /\ mine_locs = {}

\* ------------------------------------------------------------ scenario A
\* The game on the 3x3 board of Board::new_fixed(Dim::Square(3), [(2, 2)]).
ScenarioAInit ==
    /\ dims = <<3, 3>>
    /\ cells = from_cells(<<3, 3>>, {<<2, 2>>})
    /\ status = "playing"
    /\ current_point = <<0, 0>>
    /\ queued_actions = << >>
    /\ last_res = "Ok"
    /\ overflow_checks \in BOOLEAN
    /\ SolverIdle
    /\ call = NoCall

\* The player marks among the three cells around the "1" at (1,1) that the
\* scenario leaves hidden, and digs anywhere.
ScenarioAMarks == {<<1, 2>>, <<2, 1>>, <<2, 2>>}

ScenarioANext ==
    \/ \E p \in ScenarioAMarks : DoMark(p)
    \/ \E p \in Locs(dims) : DoDig(p)
    \/ LaunchProbe
    \/ Strip
    \/ BuildLinks
    \/ LoopStep
    \/ Return
    \/ ProbeDone

ScenarioASpec == ScenarioAInit /\ [][ScenarioANext]_vars

\* The board of scenario A: no cell marked, the mine hidden, the "1" at (1,1)
\* and every cell without a number revealed.
ScenarioABoard ==
    /\ dims = <<3, 3>>
    /\ Mines(cells) = {<<2, 2>>}
    /\ cells[<<2, 2>>].state = "Hidden"
    /\ cells[<<1, 1>>].state = "Visible"
    /\ \A p \in DOMAIN cells :
          /\ cells[p].state # "Marked"
          /\ cells[p].category = Empty(0) => cells[p].state = "Visible"

HiddenLocs(c) == {p \in DOMAIN c : c[p].state = "Hidden"}

\* C11: on the board of scenario A calculate_known_cells returns the mine
\* (2,2) in `mines` and every other hidden cell in `empty`.
C11_ScenarioA ==
    (pc = "done" /\ ScenarioABoard) =>
        /\ result.kind = "Some"
        /\ result.mines = {<<2, 2>>}
        /\ result.empty = HiddenLocs(cells) \ {<<2, 2>>}

\* ------------------------------------------------------------ scenario B
\* Two regions of two hidden locations that require 1 mine each and share
\* exactly one location; the location of the first that the second has not
\* is known to be empty and has been removed from their link as such.
ScenarioBRegions ==
    /\ regions[1].mines = 1 /\ Cardinality(regions[1].hidden) = 2
    /\ regions[2].mines = 1 /\ Cardinality(regions[2].hidden) = 2
    /\ Cardinality(regions[1].hidden \cap regions[2].hidden) = 1

ScenarioBSafe ==
    /\ ScenarioBRegions
    /\ mine_locs = {}
    /\ zero_locs = regions[1].hidden \ regions[2].hidden

\* C12: in scenario B the propagation does not fail on the link and what it
\* resolves from it holds the shared location in `mines`.
C12_ScenarioB ==
    (ScenarioBSafe /\ pc \in {"empty_removed", "resolved"}) =>
        /\ result.kind # "Panic"
        /\ pc = "resolved" => regions[1].hidden \cap regions[2].hidden \subseteq mine_locs

\* C13: a step of launch_probe never changes a cell, and the step that ends it
\* reports Dead exactly when calculate_known_cells returned Some known cells
\* and Ok exactly when it returned None.
C13_ProbeReports ==
    [][(pc # "idle" \/ pc' # "idle") =>
          /\ cells' = cells
          /\ dims' = dims
          /\ (pc = "done" /\ pc' = "idle") =>
                /\ (last_res' = "Dead") <=> (result.kind = "Some")
                /\ (last_res' = "Ok") <=> (result.kind = "None")]_vars

C13_Witness ==
    /\ pc = "done"
    /\ result.kind = "Some"
    /\ \E p \in DOMAIN cells : cells[p].state = "Visible"
    /\ \E p \in DOMAIN cells : cells[p].state = "Marked"

\* ------------------------------------------------------------ scenario C
\* A region that requires no mine and has no hidden location.
EmptyRegion(r) == r.mines = 0 /\ r.hidden = {}
WithoutEmpty(rr) == SelectSeq(rr, LAMBDA r : ~EmptyRegion(r))

\* The links calculate_known_cells builds from the regions rr.
LinksOf(rr) == LinksFrom(strip_zero_regions_from(rr).regions, 1, 1, overflow_checks)

\* C14: a region with no required mine and no hidden location raises no
\* error and contributes nothing: a call that panics would panic without it,
\* the locations stripped and the links built are those of the other regions,
\* and the result holds locations of the other regions only (None when
\* there is no other region).
C14_EmptyRegionNoOp ==
    (\E i \in 1 .. Len(extracted) : EmptyRegion(extracted[i])) =>
        LET rest == WithoutEmpty(extracted)
        IN /\ pc = "panic" => ~LinksOf(rest).ok
           /\ Stripped =>
                 /\ zero_locs \cup mine_locs \subseteq UnionHidden(rest)
                 /\ strip_zero_regions_from(rest).zero_locs \subseteq zero_locs
           /\ (pc = "loop" /\ idle_passes = 0) => links = LinksOf(rest).links
           /\ pc = "done" =>
                 /\ result.empty \cup result.mines \subseteq UnionHidden(rest)
                 /\ rest = << >> => result.kind = "None"

C14_Witness ==
    /\ pc = "done"
    /\ \E i \in 1 .. Len(extracted) : EmptyRegion(extracted[i])
    /\ \E i \in 1 .. Len(extracted) : ~EmptyRegion(extracted[i])
    /\ result.kind = "Some"

\* ------------------------------------------------------------ neighbours
Abs(n) == IF n < 0 THEN -n ELSE n
Chebyshev(p, q) == Max(Abs(p[1] - q[1]), Abs(p[2] - q[2]))
Yielded == {call.ret[i] : i \in 1 .. Len(call.ret)}
OnBorders(loc) ==
    (IF loc[1] = 0 \/ loc[1] = w - 1 THEN 1 ELSE 0)
    + (IF loc[2] = 0 \/ loc[2] = h - 1 THEN 1 ELSE 0)

\* C15: surroundings_of at a location of the board yields exactly the
\* locations of the board at Chebyshev distance 1 from it, each once: never
\* the location itself, never one outside the board; 3 at a corner, 5 on an
\* edge and 8 in the interior of a board at least 3 wide and high.
C15_Neighbours ==
    pc = "returned" =>
        /\ Yielded = {q \in Locs(dims) : Chebyshev(call.arg, q) = 1}
        /\ Cardinality(Yielded) = Len(call.ret)
        /\ call.arg \notin Yielded
        /\ \A q \in Yielded : is_loc(q) /\ q[1] >= 0 /\ q[2] >= 0
        /\ (w >= 3 /\ h >= 3) =>
              Len(call.ret) = CASE OnBorders(call.arg) = 2 -> 3
                                [] OnBorders(call.arg) = 1 -> 5
                                [] OTHER -> 8

C15_Witness ==
    /\ pc = "returned"
    /\ w >= 3 /\ h >= 4
    /\ call.arg = <<1, 2>>
    /\ Len(call.ret) = 8

\* ------------------------------------------------------------ links
\* The zones of the parents of LinkSpec: parent0 only, shared, parent1 only.
ParentZones == split_sets(regions[1].hidden, regions[2].hidden)

ms_min ==
    Max(0, Max(regions[1].mines - Cardinality(ParentZones[1]),
               regions[2].mines - Cardinality(ParentZones[3])))

ms_max ==
    Min(Cardinality(ParentZones[2]), Min(regions[1].mines, regions[2].mines))

\* C16: for two regions that share a location the link is made, and its
\* mine_sets are exactly the triples (A.mines - ms, ms, B.mines - ms) for ms
\* from max(0, A.mines - |r0|, B.mines - |r1|) to min(|rs|, A.mines, B.mines).
C16_FeasibleSet ==
    (pc \in {"linked", "panic"} /\ ParentZones[2] # {}) =>
        /\ pc = "linked"
        /\ links[1].mine_sets =
              {<<regions[1].mines - ms, ms, regions[2].mines - ms>> : ms \in ms_min .. ms_max}

\* The counts of a triple are within the sizes of the zones of the link.
TripleFits(link, t) ==
    /\ ULe(t[1], Cardinality(link.r0))
    /\ ULe(t[2], Cardinality(link.rs))
    /\ ULe(t[3], Cardinality(link.r1))

\* C17: every triple of a link is within the sizes of the link's zones, when
\* the link is made and after every remove_mines and remove_empty, and when
\* the link is made its counts add up to the mines of the two parents (stated
\* for the build that checks overflow, where no triple holds a wrapped count).
C17_TriplesFit ==
    (pc \in {"linked", "mines_removed", "empty_removed", "resolved"} /\ overflow_checks) =>
        \A t \in links[1].mine_sets :
            /\ TripleFits(links[1], t)
            /\ pc = "linked" =>
                  /\ t[1] + t[2] = regions[1].mines
                  /\ t[2] + t[3] = regions[2].mines

\* What a link whose only triple is t must resolve, zone by zone.
ForcedZero(link, t) ==
    (IF t[1] = 0 THEN link.r0 ELSE {})
    \cup (IF t[2] = 0 THEN link.rs ELSE {})
    \cup (IF t[3] = 0 THEN link.r1 ELSE {})

ForcedMines(link, t) ==
    (IF t[1] = Cardinality(link.r0) THEN link.r0 ELSE {})
    \cup (IF t[2] = Cardinality(link.rs) THEN link.rs ELSE {})
    \cup (IF t[3] = Cardinality(link.r1) THEN link.r1 ELSE {})

\* C18: the step that resolves a link with exactly one triple adds to
\* zero_locs exactly the zones whose count is 0 and to mine_locs exactly the
\* zones whose count is their size, each zone with its own count (stated for
\* the build that checks overflow, where no triple holds a wrapped count).
C18_ForcedZones ==
    [][(pc # "resolved" /\ pc' = "resolved" /\ overflow_checks) =>
          LET t == CHOOSE x \in links[1].mine_sets : TRUE
          IN /\ zero_locs' = zero_locs \cup ForcedZero(links[1], t)
             /\ mine_locs' = mine_locs \cup ForcedMines(links[1], t)]_vars

\* ------------------------------------------------------------ regions
SeqRange(q) == {q[i] : i \in 1 .. Len(q)}

\* C19: on a board whose marked cells are all mines, every region, as
\* extracted and as left by the removals of stripping and propagation,
\* requires no more mines than it has hidden locations, and no wrapped count.
C19_RegionInvariant ==
    MarksAreMines =>
        \A r \in SeqRange(extracted) \cup SeqRange(regions) :
            r.mines >= 0 /\ r.mines <= Cardinality(r.hidden)

C19_Witness ==
    /\ MarksAreMines
    /\ MarkedCount >= 1
    /\ Stripped
    /\ Len(extracted) >= 2
    /\ \E i \in 1 .. Len(regions) : regions[i].hidden # {}

\* ------------------------------------------------------------ extraction
\* The revealed cells that show a number, and the region each one stands for.
NumberedVisible ==
    {p \in DOMAIN cells :
        /\ cells[p].state = "Visible"
        /\ cells[p].category.kind = "Empty"
        /\ cells[p].category.n > 0}

RegionFor(p) ==
    Region(cells[p].category.n
               - Cardinality({q \in surroundings_of(dims, p) : cells[q].state = "Marked"}),
           {q \in surroundings_of(dims, p) : cells[q].state = "Hidden"})

\* C20: once extract_regions has run on a board without a numbered cell that
\* has more marked neighbours than its number, the regions after the board's
\* own are, counted with repetition, exactly the regions of the revealed
\* numbered cells: one for each, none for any other cell.
C20_OnePerNumberedCell ==
    (pc # "idle" /\ ~FlagOvercount) =>
        /\ extracted # << >>
        /\ \A r \in SeqRange(Tail(extracted)) \cup {RegionFor(p) : p \in NumberedVisible} :
              Cardinality({i \in 2 .. Len(extracted) : extracted[i] = r})
                  = Cardinality({p \in NumberedVisible : RegionFor(p) = r})

\* C20 on the boards as wide as high.
C20_SquareBoards == (w = h) => C20_OnePerNumberedCell

\* C21: the first region extracted is the board's own: its hidden set is every
\* hidden, unmarked location and it requires the board's mines minus its
\* marked cells (stated for boards as wide as high with no more marked cells
\* than mines and no numbered cell with more marked neighbours than its
\* number: extraction panics on the others before or after this region).
C21_GlobalRegion ==
    (pc # "idle" /\ w = h /\ ~FlagOvercount /\ MarkedCount <= TotalMines) =>
        /\ extracted # << >>
        /\ extracted[1] = Region(TotalMines - MarkedCount, HiddenLocs(cells))

\* C22: once stripping is over no residual region with hidden locations left
\* requires 0 mines or as many mines as it has hidden locations, and no
\* residual region holds a location already in zero_locs or mine_locs.
C22_StripFixpoint ==
    Stripped =>
        \A r \in SeqRange(regions) :
            /\ r.hidden # {} => (r.mines # 0 /\ r.mines # Cardinality(r.hidden))
            /\ r.hidden \cap (zero_locs \cup mine_locs) = {}

\* C23: no link is returned exactly when the hidden sets of the two parents
\* share no location; the zones of a link returned are parent0's hidden set
\* minus parent1's, their intersection and parent1's minus parent0's,
\* pairwise disjoint and together the union of the two hidden sets.
C23_Zones ==
    (pc \in {"linked", "unlinked", "panic"}) =>
        /\ (pc = "unlinked") <=> (regions[1].hidden \cap regions[2].hidden = {})
        /\ pc = "linked" =>
              /\ links[1].r0 = regions[1].hidden \ regions[2].hidden
              /\ links[1].rs = regions[1].hidden \cap regions[2].hidden
              /\ links[1].r1 = regions[2].hidden \ regions[1].hidden
              /\ links[1].r0 \cap links[1].rs = {}
              /\ links[1].rs \cap links[1].r1 = {}
              /\ links[1].r0 \cap links[1].r1 = {}
              /\ links[1].r0 \cup links[1].rs \cup links[1].r1
                    = regions[1].hidden \cup regions[2].hidden

C23_Witness ==
    /\ pc = "linked"
    /\ links[1].r0 # {} /\ links[1].rs # {} /\ links[1].r1 # {}

\* ------------------------------------------------------------ propagation
ZonesOf(link) == link.r0 \cup link.rs \cup link.r1

\* C24: once resolved locations have been applied to a link and to the
\* regions, none of them is left in a zone of the link or in the hidden set
\* of a region, and no step on a link adds a location to one of its zones or
\* to a hidden set, or a triple to its mine_sets.
C24_OnlyShrinks ==
    [][(links # << >> /\ links' # << >> /\ result'.kind # "Panic") =>
          /\ links'[1].r0 \subseteq links[1].r0
          /\ links'[1].rs \subseteq links[1].rs
          /\ links'[1].r1 \subseteq links[1].r1
          /\ Cardinality(links'[1].mine_sets) <= Cardinality(links[1].mine_sets)
          /\ \A i \in 1 .. Len(regions) : regions'[i].hidden \subseteq regions[i].hidden
          /\ pc' \in {"mines_removed", "empty_removed", "applied"} =>
                ZonesOf(links'[1]) \cap ((mine_locs' \cup zero_locs') \ (mine_locs \cup zero_locs)) = {}
          /\ pc' = "applied" =>
                \A i \in 1 .. Len(regions) :
                    regions'[i].hidden \cap (mine_locs' \cup zero_locs') = {}]_vars

C24_Witness ==
    /\ pc = "applied"
    /\ overflow_checks
    /\ result.kind # "Panic"
    /\ zero_locs # {}
    /\ Cardinality(regions[1].hidden) + Cardinality(regions[2].hidden) = 1

\* ------------------------------------------------------------ clusters
\* The group of call.ret that holds the element of index id.
GroupOf(id) == CHOOSE k \in 1 .. Len(call.ret) : id \in SeqRange(call.ret[k])

ItemIds == 0 .. Len(call.arg) - 1

\* The elements reached from those of S by chains of elements in which each
\* shares a location with the next.
RECURSIVE Chained(_)
Chained(S) ==
    LET T == S \cup {j \in ItemIds : \E i \in S : call.arg[i + 1] \cap call.arg[j + 1] # {}}
    IN IF T = S THEN S ELSE Chained(T)

\* C25: two elements whose location sets intersect are in the same cluster.
C25_OverlapSameCluster ==
    pc = "clustered" =>
        \A i \in ItemIds, j \in ItemIds :
            call.arg[i + 1] \cap call.arg[j + 1] # {} => GroupOf(i) = GroupOf(j)

\* C26: two elements are in the same cluster only if a chain of elements,
\* each sharing a location with the next, connects them.
C26_OnlyChained ==
    pc = "clustered" =>
        \A i \in ItemIds, j \in ItemIds :
            GroupOf(i) = GroupOf(j) => j \in Chained({i})

\* ------------------------------------------------------------ the global region
\* The links one of whose parents has the hidden set hid.
LinksWithParent(hid) ==
    {i \in 1 .. Len(links) :
        \/ links[i].r0 \cup links[i].rs = hid
        \/ links[i].r1 \cup links[i].rs = hid}

\* C27: where no numbered cell's region has the hidden set of the board's
\* region, no link of the queue has the board's region as a parent.
C27_GlobalNotLinked ==
    (/\ pc = "loop"
     /\ extracted # << >>
     /\ \A k \in 2 .. Len(extracted) : extracted[k].hidden # extracted[1].hidden) =>
        LinksWithParent(extracted[1].hidden) = {}

\* ------------------------------------------------------------ link construction
\* The unordered pairs of two distinct residual regions that share a location.
OverlappingPairs ==
    {x \in (1 .. Len(regions)) \X (1 .. Len(regions)) :
        x[1] < x[2] /\ regions[x[1]].hidden \cap regions[x[2]].hidden # {}}

\* C28: the queue that link construction leaves holds as many links as there
\* are unordered pairs of two distinct residual regions with overlapping
\* hidden sets.
C28_OneLinkPerPair ==
    [][(pc = "link" /\ pc' = "loop") =>
          Len(links') = Cardinality(OverlappingPairs)]_vars

\* ------------------------------------------------------------ order of the regions
\* The vectors that hold the regions of rr in another order.
Reordered(rr) ==
    {[i \in 1 .. Len(rr) |-> rr[f[i]]] :
        f \in {g \in [1 .. Len(rr) -> 1 .. Len(rr)] :
                  \A i, j \in 1 .. Len(rr) : g[i] = g[j] => i = j}}

\* C29: what calculate_known_cells has returned for the extracted regions is
\* what it returns for the same regions in any other order.
C29_OrderFree ==
    pc \in {"done", "panic"} =>
        \A rr \in Reordered(extracted) :
            calculate_known_cells(rr, overflow_checks) = result

C29_Witness ==
    /\ pc = "done"
    /\ Len(extracted) = 2
    /\ extracted[1].hidden # {} /\ extracted[2].hidden # {}
    /\ extracted[1].hidden # extracted[2].hidden
    /\ result.kind = "Some"

\* ------------------------------------------------------------ returned locations
\* C30: every location calculate_known_cells returns, in `empty` or in
\* `mines`, is a Hidden cell of the board, neither Visible nor Marked.
C30_ReturnedAreHidden ==
    (pc = "done" /\ result.kind = "Some") =>
        (result.empty \cup result.mines) \subseteq HiddenLocs(cells)

C30_Witness ==
    /\ pc = "done"
    /\ result.kind = "Some"
    /\ result.empty # {}
    /\ \E p \in DOMAIN cells : cells[p].state = "Marked"
    /\ \E p \in DOMAIN cells : cells[p].state = "Visible"

\* ------------------------------------------------------------ subtractions
\* C31: building a link takes no subtraction below zero (no overflow panic in
\* the checked build, no wrapped count in the other), and no triple of a link
\* holds a wrapped count after remove_mines or remove_empty either.
C31_NoWrap ==
    /\ pc # "panic"
    /\ links # << >> =>
          \A t \in links[1].mine_sets : t[1] >= 0 /\ t[2] >= 0 /\ t[3] >= 0

\* ------------------------------------------------------------ errors of the board
\* The three cases of a call of mark or dig that the board answers with an
\* error: a point off the board, dig on a Marked cell, dig on a Hidden mine.
OffBoard(point) == point \notin Locs(dims)

DigOnMarked(op, point) ==
    op = "dig" /\ ~OffBoard(point) /\ cells[point].state = "Marked"

DigOnHiddenMine(op, point) ==
    /\ op = "dig" /\ ~OffBoard(point)
    /\ cells[point].state = "Hidden" /\ cells[point].category = Mine

\* C32: mark and dig off the board return Err(OOB), dig on a Marked cell
\* Err(Marked), dig on a Hidden mine Err(Dead), and none of these calls
\* changes a cell.
C32_ErrorsKeepBoard ==
    [][(pc = "idle" /\ pc' = "returned") =>
          LET op == call'.arg[1]
              point == call'.arg[2]
              ret == call'.ret[1]
          IN /\ OffBoard(point) => ret = "OOB"
             /\ DigOnMarked(op, point) => ret = "Marked"
             /\ DigOnHiddenMine(op, point) => ret = "Dead"
             /\ (OffBoard(point) \/ DigOnMarked(op, point) \/ DigOnHiddenMine(op, point))
                   => cells' = cells]_vars

C32_Witness ==
    /\ pc = "returned"
    /\ call.arg[1] = "dig"
    /\ call.ret = <<"Marked">>
    /\ \E p \in DOMAIN cells : cells[p].state = "Visible"

\* ------------------------------------------------------------ cell states
\* C33: no step changes a cell's category or takes a Visible cell back to
\* Hidden or Marked; a call of mark changes the addressed cell only, Hidden
\* to Marked, Marked to Hidden and Visible not at all, and a second mark of
\* the same cell gives the board of before the first.
C33_CellTransitions ==
    [][/\ \A p \in DOMAIN cells :
            /\ cells'[p].category = cells[p].category
            /\ cells[p].state = "Visible" => cells'[p].state = "Visible"
       /\ (pc = "idle" /\ pc' = "returned" /\ call'.arg[1] = "mark") =>
             LET point == call'.arg[2]
             IN /\ \A p \in DOMAIN cells : p # point => cells'[p] = cells[p]
                /\ point \in DOMAIN cells =>
                      /\ cells[point].state = "Hidden" => cells'[point].state = "Marked"
                      /\ cells[point].state = "Marked" => cells'[point].state = "Hidden"
                /\ mark(dims, cells', point)[1] = cells]_vars

C33_Witness ==
    /\ pc = "returned"
    /\ call.arg[1] = "mark"
    /\ call.arg[2] \in DOMAIN cells
    /\ cells[call.arg[2]].state = "Hidden"
    /\ \E p \in DOMAIN cells : cells[p].state = "Visible"
    /\ \E p \in DOMAIN cells : cells[p].state = "Marked"

\* ------------------------------------------------------------ flood fill
\* The unmarked count-less cells joined to those of S by 8-neighbour steps
\* through unmarked count-less cells.
RECURSIVE Flooded(_)
Flooded(S) ==
    LET T == S \cup {q \in DOMAIN cells :
                        /\ cells[q].category = Empty(0)
                        /\ cells[q].state # "Marked"
                        /\ \E p \in S : Chebyshev(p, q) = 1}
    IN IF T = S THEN S ELSE Flooded(T)

\* The cells a flood fill from start has to show: the flooded cells and
\* their unmarked neighbours.
FillOf(start) ==
    Flooded({start}) \cup
        {q \in DOMAIN cells :
            cells[q].state # "Marked" /\ \E p \in Flooded({start}) : Chebyshev(p, q) = 1}

\* C34: dig on a Hidden cell with no neighbouring mine returns Ok, and the
\* cells that are Visible afterwards are those that were and those of the
\* fill; no mine becomes Visible and no Marked cell changes.
C34_FloodFill ==
    [][(/\ pc = "idle" /\ pc' = "returned" /\ call'.arg[1] = "dig"
        /\ call'.arg[2] \in DOMAIN cells
        /\ cells[call'.arg[2]].state = "Hidden"
        /\ cells[call'.arg[2]].category = Empty(0)) =>
          /\ call'.ret = <<"Ok">>
          /\ \A p \in DOMAIN cells :
                /\ cells'[p].state = "Visible" <=>
                      (cells[p].state = "Visible" \/ p \in FillOf(call'.arg[2]))
                /\ cells[p].state = "Marked" => cells'[p].state = "Marked"
                /\ (cells[p].category = Mine /\ cells[p].state # "Visible")
                      => cells'[p].state # "Visible"]_vars

C34_Witness ==
    /\ pc = "returned"
    /\ call.arg[1] = "dig"
    /\ call.ret = <<"Ok">>
    /\ call.arg[2] \in DOMAIN cells
    /\ cells[call.arg[2]].category = Empty(0)
    /\ \E p \in DOMAIN cells : p # call.arg[2] /\ cells[p].state = "Visible"
    /\ \E p \in DOMAIN cells : cells[p].state = "Marked" /\ cells[p].category = Empty(0)
    /\ \E p \in DOMAIN cells : cells[p].state = "Hidden" /\ cells[p].category # Mine

\* ------------------------------------------------------------ cursor
\* The cursor is on the edge of the board that a move in direction dir
\* goes to.
OnEdge(dir) ==
    CASE dir = "Up" -> current_point[2] = 0
      [] dir = "Left" -> current_point[1] = 0
      [] dir = "Down" -> current_point[2] = h - 1
      [] OTHER -> current_point[1] = w - 1

\* C35: the cursor is a location of the board after every action; a Move
\* towards the edge the cursor is on and a JumpTo to a point off the board
\* leave the cursor where it is, any other Move takes it one step and any
\* other JumpTo to its point.
C35_CursorOnBoard ==
    /\ [](current_point \in Locs(dims))
    /\ [][/\ \A dir \in Directions :
               KeyMove(dir) =>
                   /\ OnEdge(dir) => current_point' = current_point
                   /\ ~OnEdge(dir) => Chebyshev(current_point', current_point) = 1
          /\ (queued_actions = << >> /\ queued_actions' # << >>) =>
                current_point' = IF call'.ret[1] \in Locs(dims)
                                 THEN call'.ret[1] ELSE current_point]_vars

C35_Witness ==
    /\ current_point[1] = w - 1 /\ current_point[2] = h - 1
    /\ w > 1 /\ h > 1
    /\ queued_actions # << >>
    /\ call.ret[1] \notin Locs(dims)

\* ------------------------------------------------------------ clicks
\* C36: the step that follows the JumpTo of a click processes the click's
\* Dig or Mark and nothing else; for a click on the board it is applied at
\* the clicked cell, and after a click off the board it changes no cell.
C36_Click ==
    [][queued_actions # << >> =>
          /\ queued_actions' = << >>
          /\ Head(queued_actions) = call.ret[2]
          /\ call.ret[1] \in Locs(dims) =>
                cells' = act_at(dims, cells, call.ret[2], call.ret[1])[1]
          /\ call.ret[1] \notin Locs(dims) => cells' = cells]_vars

\* ------------------------------------------------------------ union-find
\* The elements met from id by following parent links in ds.
RECURSIVE Ancestors(_, _)
Ancestors(ds, S) ==
    LET T == S \cup {ds[x].parent : x \in S}
    IN IF T = S THEN S ELSE Ancestors(ds, T)

\* The one element among them that is its own parent.
Representative(ds, id) ==
    CHOOSE r \in Ancestors(ds, {id}) : ds[r].parent = r

\* C37: root(id) returns an element that is its own parent and is met from
\* id along parent links, and leaves every element its representative;
\* after join(id_0, id_1) the two have one representative, and an element
\* that was in neither of their sets keeps its own.
C37_Representative ==
    [][/\ \A id \in DOMAIN call.arg :
            CallRoot(id) =>
                /\ call.arg[call'.ret[1]].parent = call'.ret[1]
                /\ call'.ret[1] \in Ancestors(call.arg, {id})
                /\ \A x \in DOMAIN call.arg :
                      Representative(call'.arg, x) = Representative(call.arg, x)
       /\ \A id_0 \in DOMAIN call.arg, id_1 \in DOMAIN call.arg :
            CallJoin(id_0, id_1) =>
                /\ Representative(call'.arg, id_0) = Representative(call'.arg, id_1)
                /\ \A x \in DOMAIN call.arg :
                      (/\ Representative(call.arg, x) # Representative(call.arg, id_0)
                       /\ Representative(call.arg, x) # Representative(call.arg, id_1))
                      => Representative(call'.arg, x) = Representative(call.arg, x)]_vars

C37_Witness ==
    /\ pc = "unions"
    /\ call.ret # << >>
    /\ \E x \in DOMAIN call.arg : Cardinality(Ancestors(call.arg, {x})) = 3

\* ------------------------------------------------------------ groups
\* The groups of call.ret that hold the element of index id.
GroupsOf(id) == {k \in 1 .. Len(call.ret) : \E n \in 1 .. Len(call.ret[k]) : call.ret[k][n] = id}

\* C38: cc returns, also for no element at all; every element is in exactly
\* one group and once in it, and two elements share a group exactly when
\* their indices have the same root in the DisjointSet that run built.
C38_Partition ==
    (pc \in {"clustered", "panic"} /\ call.arg \in Seq(ClusterItems)) =>
        /\ pc = "clustered"
        /\ \A id \in ItemIds :
              /\ Cardinality(GroupsOf(id)) = 1
              /\ \A k \in GroupsOf(id) :
                    Cardinality({n \in 1 .. Len(call.ret[k]) : call.ret[k][n] = id}) = 1
        /\ \A k \in 1 .. Len(call.ret) : SeqRange(call.ret[k]) \subseteq ItemIds
        /\ \A i \in ItemIds, j \in ItemIds :
              (GroupsOf(i) = GroupsOf(j)) <=>
                  (Representative(run(call.arg, overflow_checks).ds, i)
                      = Representative(run(call.arg, overflow_checks).ds, j))
        /\ call.arg = << >> => call.ret = << >>

====
